---------------------------- MODULE Spec2Model ----------------------------
(***************************************************************************)
(* A model of the simplexsolve package (package simplexsolve, the guarded  *)
(* version with error returns): NewTableau, Solve, ReadSoln and their      *)
(* helpers.                                                                *)
(*                                                                         *)
(* float64 is modelled bit for bit: every product, sum and quotient is     *)
(* rounded as the machine rounds it.  The caller's slices are modelled     *)
(* with their backing arrays, so that append writes where Go's append      *)
(* writes.  Go indices are 0-based and use -1 for "none"; the model's are  *)
(* 1-based and use 0 for "none".                                           *)
(***************************************************************************)
EXTENDS Integers, Sequences, FiniteSets, TLC

\* ------------------------------------------------------------------ bounds
\* Largest number of constraints and of structural variables of an LP.
MaxM == 2
MaxN == 2
\* Largest size of an LP: the number of its entries (coefficients,
\* right-hand sides, objective) plus the number of those that are not 0.
MaxSize == 14
\* Largest number of pivots of one tableau.
MaxPivots == 6

\* The values the LP's data are drawn from: 1/5 and 1/3 are not float64s,
\* so pivots on 5 and on what they leave are rounded.
CoefVals == {-3, 0, 5}
RhsVals == {0, 1, 2}
ObjVals == {-1, 0, 1}

\* ----------------------------------------------------------------- float64
\* A float64 is modelled bit-exactly (IEEE 754 binary64, round to nearest,
\* ties to even; subnormals, signed zeros, infinities and NaN included).
\* A finite number is (-1)^s * m * 2^e with m a natural number that is odd
\* (or 0, then e = 0), so that equal numbers have equal representations.
\* m needs up to 53 bits: it is a sequence of digits in base Limb, least
\* significant first, without leading zeros (<<>> is 0).
Limb == 2^15
LimbBits == 15
\* float64: 53 bits of precision, least exponent of a bit -1074, and every
\* finite number is below 2^1024.
MantBits == 53
MinExp == -1074
MaxExp == 1024

Big == Seq(Nat)
Float == [k : {"fin", "inf", "nan"}, s : {0, 1}, m : Big, e : Int]

Max(a, b) == IF a < b THEN b ELSE a
Min(a, b) == IF a < b THEN a ELSE b

\* ---- natural numbers of any size
Digit(a, i) == IF i <= Len(a) THEN a[i] ELSE 0

RECURSIVE TopDigit(_, _)
TopDigit(a, i) == IF i = 0 THEN 0 ELSE IF a[i] # 0 THEN i ELSE TopDigit(a, i - 1)

BigTrim[a \in Big] == SubSeq(a, 1, TopDigit(a, Len(a)))

BigOfNat(n) == BigTrim[<<n % Limb, (n \div Limb) % Limb, n \div (Limb * Limb)>>]

RECURSIVE NatBitLen(_)
NatBitLen(n) == IF n = 0 THEN 0 ELSE 1 + NatBitLen(n \div 2)

RECURSIVE NatTrailingZeros(_)
NatTrailingZeros(n) == IF n % 2 = 1 THEN 0 ELSE 1 + NatTrailingZeros(n \div 2)

BitLen(a) == IF a = <<>> THEN 0 ELSE LimbBits * (Len(a) - 1) + NatBitLen(a[Len(a)])

RECURSIVE LowDigit(_, _)
LowDigit(a, i) == IF a[i] # 0 THEN i ELSE LowDigit(a, i + 1)

\* The number of trailing zero bits of a > 0.
TrailingZeros(a) ==
  LimbBits * (LowDigit(a, 1) - 1) + NatTrailingZeros(a[LowDigit(a, 1)])

RECURSIVE CmpFrom(_, _, _)
CmpFrom(a, b, i) ==
  IF i = 0 THEN 0
  ELSE IF a[i] < b[i] THEN -1
  ELSE IF a[i] > b[i] THEN 1
  ELSE CmpFrom(a, b, i - 1)

\* -1, 0, 1 as a < b, a = b, a > b.
BigCmp[a \in Big, b \in Big] ==
  IF Len(a) < Len(b) THEN -1
  ELSE IF Len(a) > Len(b) THEN 1
  ELSE CmpFrom(a, b, Len(a))

RECURSIVE AddCarry(_, _, _)
AddCarry(a, b, i) ==
  IF i = 0 THEN 0
  ELSE (Digit(a, i) + Digit(b, i) + AddCarry(a, b, i - 1)) \div Limb

BigAdd[a \in Big, b \in Big] ==
  BigTrim[[i \in 1..(Max(Len(a), Len(b)) + 1) |->
             (Digit(a, i) + Digit(b, i) + AddCarry(a, b, i - 1)) % Limb]]

RECURSIVE SubBorrow(_, _, _)
SubBorrow(a, b, i) ==
  IF i = 0 THEN 0
  ELSE IF Digit(a, i) - Digit(b, i) - SubBorrow(a, b, i - 1) < 0 THEN 1 ELSE 0

\* a - b for a >= b.
BigSub[a \in Big, b \in Big] ==
  BigTrim[[i \in 1..Len(a) |->
             (Digit(a, i) - Digit(b, i) - SubBorrow(a, b, i - 1) + Limb) % Limb]]

RECURSIVE MulCarry(_, _, _)
MulCarry(a, d, i) ==
  IF i = 0 THEN 0 ELSE (a[i] * d + MulCarry(a, d, i - 1)) \div Limb

\* a * d for a digit d.
BigMulDigit[a \in Big, d \in Nat] ==
  BigTrim[[i \in 1..(Len(a) + 1) |->
             (Digit(a, i) * d + MulCarry(a, d, i - 1)) % Limb]]

\* a * Limb^n.
BigShiftDigits[a \in Big, n \in Nat] ==
  IF a = <<>> THEN a ELSE [i \in 1..n |-> 0] \o a

BigMul[a \in Big, b \in Big] ==
  LET Sum[j \in Nat, acc \in Big] ==
        IF j > Len(b) THEN acc
        ELSE Sum[j + 1, BigAdd[acc, BigShiftDigits[BigMulDigit[a, b[j]], j - 1]]]
  IN  Sum[1, <<>>]

\* a * 2^n.
BigShl[a \in Big, n \in Nat] ==
  BigShiftDigits[BigMulDigit[a, 2^(n % LimbBits)], n \div LimbBits]

\* floor(a / 2^n).
BigShr[a \in Big, n \in Nat] ==
  LET q == n \div LimbBits
      r == n % LimbBits
  IN  BigTrim[[i \in 1..Max(Len(a) - q, 0) |->
                 (Digit(a, i + q) \div 2^r)
                   + (Digit(a, i + q + 1) % 2^r) * 2^(LimbBits - r)]]

\* Bit n of a (bit 0 is the least significant).
BigBit(a, n) == (Digit(a, n \div LimbBits + 1) \div 2^(n % LimbBits)) % 2

\* a is a multiple of 2^n.
BigLowZero(a, n) ==
  /\ \A i \in 1..(n \div LimbBits) : Digit(a, i) = 0
  /\ Digit(a, n \div LimbBits + 1) % 2^(n % LimbBits) = 0

\* The largest digit d with b * d <= r, counting down from d, which is
\* not below it.
DigitFrom[r \in Big, b \in Big, d \in Nat] ==
  IF BigCmp[BigMulDigit[b, d], r] > 0 THEN DigitFrom[r, b, d - 1] ELSE d

\* The next digit of a long division and the remainder it leaves, as
\* <<d, r - b * d>>, for r < b * Limb and b's top digit at least Limb / 2:
\* the digit is estimated from the top digits of r and b, which gives it
\* or up to 2 more.
DigitTaken[r \in Big, b \in Big, d \in Nat] == <<d, BigSub[r, BigMulDigit[b, d]]>>
QuotDigit[r \in Big, b \in Big] ==
  DigitTaken[r, b,
    DigitFrom[r, b, Min(Limb - 1,
                        (Digit(r, Len(b) + 1) * Limb + Digit(r, Len(b))) \div b[Len(b)])]]

\* <<floor(a / b), a mod b>> for b > 0 with top digit at least Limb / 2,
\* by long division: one digit of the quotient for each digit of a, from
\* the top.
LongDiv[a \in Big, b \in Big] ==
  LET Step[i \in Nat, q \in Big, dr \in Nat \X Big] ==
        IF i = 0 THEN <<BigTrim[<<dr[1]>> \o q], dr[2]>>
        ELSE Step[i - 1, <<dr[1]>> \o q, QuotDigit[BigTrim[<<a[i]>> \o dr[2]], b]]
  IN  Step[Len(a), <<>>, <<0, <<>>>>]

\* <<floor(a / b), a mod b>> for b > 0: both are scaled by the power of 2
\* that brings b's top digit to Limb / 2 or more.
Unscaled[qr \in Big \X Big, n \in Nat] == <<qr[1], BigShr[qr[2], n]>>
DivScaled[a \in Big, b \in Big, n \in Nat] ==
  Unscaled[LongDiv[BigShl[a, n], BigShl[b, n]], n]
BigDivMod[a \in Big, b \in Big] ==
  DivScaled[a, b, LimbBits - NatBitLen(b[Len(b)])]

\* ---- rounding
FZero(s) == [k |-> "fin", s |-> s, m |-> <<>>, e |-> 0]
FInf(s) == [k |-> "inf", s |-> s, m |-> <<>>, e |-> 0]
NaN == [k |-> "nan", s |-> 0, m |-> <<>>, e |-> 0]

\* (-1)^s * m * 2^e for m > 0 that fits: the odd part of m, or infinity
\* from 2^1024 on.
OddPart[s \in {0, 1}, m \in Big, e \in Int, z \in Nat] ==
  [k |-> "fin", s |-> s, m |-> BigShr[m, z], e |-> e + z]
Canon[s \in {0, 1}, m \in Big, e \in Int] ==
  IF e + BitLen(m) > MaxExp THEN FInf(s) ELSE OddPart[s, m, e, TrailingZeros(m)]

\* (-1)^s * q * 2^t rounded up or not: half says that the first bit
\* dropped is 1, rest that a later one is.  Ties go to the even q.
Nearest[s \in {0, 1}, q \in Big, t \in Int, half \in BOOLEAN, rest \in BOOLEAN] ==
  IF half /\ (rest \/ BigBit(q, 0) = 1) THEN Canon[s, BigAdd[q, <<1>>], t]
  ELSE IF q = <<>> THEN FZero(s)
  ELSE Canon[s, q, t]

\* The float64 nearest to (-1)^s * m * 2^e (m > 0), ties to even: the
\* result's last bit has exponent t.
RoundAt[s \in {0, 1}, m \in Big, e \in Int, t \in Int] ==
  IF t <= e THEN Canon[s, m, e]
  ELSE Nearest[s, BigShr[m, t - e], t, BigBit(m, t - e - 1) = 1,
               ~BigLowZero(m, t - e - 1)]

Round[s \in {0, 1}, m \in Big, e \in Int] ==
  RoundAt[s, m, e, Max(e + BitLen(m) - MantBits, MinExp)]

\* The float64 nearest to the number <<s, m, e>>.
RoundOf[x \in {0, 1} \X Big \X Int] ==
  IF x[2] = <<>> THEN FZero(x[1]) ELSE Round[x[1], x[2], x[3]]

\* The number <<s, m, e>> is a float64: rounding does not change it.
Fits(x) ==
  \/ x[2] = <<>>
  \/ /\ BitLen(x[2]) - TrailingZeros(x[2]) <= MantBits
     /\ x[3] + TrailingZeros(x[2]) >= MinExp
     /\ x[3] + BitLen(x[2]) <= MaxExp

\* ---- the operations of the code
IsZero(a) == a.k = "fin" /\ a.m = <<>>
Xor(s1, s2) == IF s1 = s2 THEN 0 ELSE 1

\* float64(i) for an integer i, and the integer a small whole float64 is.
FromInt(i) ==
  IF i = 0 THEN FZero(0)
  ELSE IF i < 0 THEN Round[1, BigOfNat(-i), 0] ELSE Round[0, BigOfNat(i), 0]
IntOf(a) ==
  IF IsZero(a) THEN 0 ELSE (IF a.s = 1 THEN -1 ELSE 1) * a.m[1] * 2^a.e
Zero == FZero(0)
One == FromInt(1)

\* u * v
RMul[a \in Float, b \in Float] ==
  IF a.k = "nan" \/ b.k = "nan" THEN NaN
  ELSE IF a.k = "inf" \/ b.k = "inf"
  THEN (IF IsZero(a) \/ IsZero(b) THEN NaN ELSE FInf(Xor(a.s, b.s)))
  ELSE IF IsZero(a) \/ IsZero(b) THEN FZero(Xor(a.s, b.s))
  ELSE RoundOf[<<Xor(a.s, b.s), BigMul[a.m, b.m], a.e + b.e>>]

\* The exact sum of two finite non-zero numbers, as <<s, m, e>> for
\* (-1)^s * m * 2^e (m = <<>>: the sum is 0).
SumAligned[sx \in {0, 1}, x \in Big, sy \in {0, 1}, y \in Big, e \in Int] ==
  IF sx = sy THEN <<sx, BigAdd[x, y], e>>
  ELSE IF BigCmp[x, y] = 0 THEN <<0, <<>>, e>>
  ELSE IF BigCmp[x, y] > 0 THEN <<sx, BigSub[x, y], e>>
  ELSE <<sy, BigSub[y, x], e>>
SumFinite[a \in Float, b \in Float] ==
  SumAligned[a.s, BigShl[a.m, a.e - Min(a.e, b.e)],
             b.s, BigShl[b.m, b.e - Min(a.e, b.e)], Min(a.e, b.e)]

\* One number is below a quarter of the other's last bit: their sum rounds
\* to the other.
FarBelow(a, b) == a.e + BitLen(a.m) + MantBits + 3 < b.e + BitLen(b.m)

\* u + v
RAdd[a \in Float, b \in Float] ==
  IF a.k = "nan" \/ b.k = "nan" THEN NaN
  ELSE IF a.k = "inf"
  THEN (IF b.k = "inf" /\ a.s # b.s THEN NaN ELSE a)
  ELSE IF b.k = "inf" THEN b
  ELSE IF IsZero(a)
  THEN (IF IsZero(b) THEN FZero(IF a.s = b.s THEN a.s ELSE 0) ELSE b)
  ELSE IF IsZero(b) THEN a
  ELSE IF FarBelow(b, a) THEN a
  ELSE IF FarBelow(a, b) THEN b
  ELSE RoundOf[SumFinite[a, b]]

\* -v
RNeg(a) == IF a.k = "nan" THEN a ELSE [a EXCEPT !.s = 1 - a.s]

\* The quotient of two finite non-zero numbers to n bits, with one more
\* bit that says whether a remainder is left, as <<s, m, e>>.
WithSticky[s \in {0, 1}, qr \in Big \X Big, e \in Int] ==
  <<s, BigAdd[BigMulDigit[qr[1], 2], IF qr[2] = <<>> THEN <<>> ELSE <<1>>], e>>
QuotFinite[a \in Float, b \in Float, n \in Nat] ==
  WithSticky[Xor(a.s, b.s), BigDivMod[BigShl[a.m, n], b.m], a.e - b.e - n - 1]

\* u / v
RDiv[a \in Float, b \in Float] ==
  IF a.k = "nan" \/ b.k = "nan" THEN NaN
  ELSE IF a.k = "inf"
  THEN (IF b.k = "inf" THEN NaN ELSE FInf(Xor(a.s, b.s)))
  ELSE IF b.k = "inf" THEN FZero(Xor(a.s, b.s))
  ELSE IF IsZero(b)
  THEN (IF IsZero(a) THEN NaN ELSE FInf(Xor(a.s, b.s)))
  ELSE IF IsZero(a) THEN FZero(Xor(a.s, b.s))
  ELSE RoundOf[QuotFinite[a, b, Max(0, MantBits + 2 + BitLen(b.m) - BitLen(a.m))]]

\* |a| < |b| for numbers that are not NaN.
MagLt[a \in Float, b \in Float] ==
  IF a.k = "inf" THEN FALSE
  ELSE IF b.k = "inf" THEN TRUE
  ELSE IF IsZero(b) THEN FALSE
  ELSE IF IsZero(a) THEN TRUE
  ELSE LET qa == a.e + BitLen(a.m)
           qb == b.e + BitLen(b.m)
           e == Min(a.e, b.e)
       IN  IF qa # qb THEN qa < qb
           ELSE BigCmp[BigShl[a.m, a.e - e], BigShl[b.m, b.e - e]] < 0

\* u < v
RLt[a \in Float, b \in Float] ==
  IF a.k = "nan" \/ b.k = "nan" THEN FALSE
  ELSE IF IsZero(a) /\ IsZero(b) THEN FALSE
  ELSE IF IsZero(a) THEN b.s = 0
  ELSE IF IsZero(b) THEN a.s = 1
  ELSE IF a.s # b.s THEN a.s = 1
  ELSE IF a.s = 0 THEN MagLt[a, b] ELSE MagLt[b, a]

\* u == v
REq(a, b) ==
  /\ a.k # "nan" /\ b.k # "nan"
  /\ (IsZero(a) /\ IsZero(b)) \/ a = b

\* math.MaxFloat64 = (2^53 - 1) * 2^971
MaxFloat64 ==
  [k |-> "fin", s |-> 0, m |-> BigSub[BigShl[<<1>>, MantBits], <<1>>],
   e |-> MaxExp - MantBits]

\* The operation's result is the exact one: nothing is rounded away.
Finite(a) == a.k = "fin"
ExactMul(a, b) ==
  /\ Finite(a) /\ Finite(b)
  /\ IsZero(a) \/ IsZero(b) \/ Fits(<<0, BigMul[a.m, b.m], a.e + b.e>>)
ExactAdd(a, b) ==
  /\ Finite(a) /\ Finite(b)
  /\ \/ IsZero(a) \/ IsZero(b)
     \/ ~FarBelow(a, b) /\ ~FarBelow(b, a) /\ Fits(SumFinite[a, b])
ExactDiv(a, b) ==
  /\ Finite(a) /\ Finite(b) /\ ~IsZero(b)
  /\ \/ IsZero(a)
     \/ /\ BigDivMod[a.m, b.m][2] = <<>>
        /\ Fits(<<0, BigDivMod[a.m, b.m][1], a.e - b.e>>)

\* ----------------------------------------------------------- the helpers
\* zipWithFloats / mapFloats specialised as the code uses them.
addSlices(sl1, sl2) == [i \in 1..Len(sl1) |-> RAdd[sl1[i], sl2[i]]]
scaleSlice(sl, s) == [i \in 1..Len(sl) |-> RMul[sl[i], s]]

Rows(t) == Len(t)
Cols(t) == Len(t[1])

\* negMinIdx: index of the most negative entry of vec, the last entry
\* excluded; first occurrence wins; 0 (Go: -1) when none is negative.
RECURSIVE negMinScan(_, _, _, _)
negMinScan(vec, i, mi, mv) ==
  IF i > Len(vec) - 1 THEN mi
  ELSE IF RLt[vec[i], mv] THEN negMinScan(vec, i + 1, i, vec[i])
       ELSE negMinScan(vec, i + 1, mi, mv)

negMinIdx(vec) == negMinScan(vec, 1, 0, Zero)

\* isSolved: no entry of the objective row (the whole row) is negative.
isSolved(t) == \A j \in 1..Cols(t) : ~RLt[t[Rows(t)][j], Zero]

\* The row scan of pivotIdxs, from row r on, with the running pr and minq.
RECURSIVE pivotRowScan(_, _, _, _, _)
pivotRowScan(t, pc, r, pr, minq) ==
  IF r > Rows(t) - 1 THEN pr
  ELSE LET pce == t[r][pc] IN
       IF REq(pce, Zero) THEN pivotRowScan(t, pc, r + 1, pr, minq)
       ELSE LET q == RDiv[t[r][Cols(t)], pce] IN
            IF RLt[q, minq] /\ RLt[Zero, q]
            THEN pivotRowScan(t, pc, r + 1, r, q)
            ELSE pivotRowScan(t, pc, r + 1, pr, minq)

\* pivotIdxs: the pivot column and row.  It panics (mat: column index out
\* of range) when there is no negative entry to choose and a constraint row
\* to read: t.At(r, -1).
pivotIdxs(t) ==
  LET pc == negMinIdx(t[Rows(t)]) IN
  IF pc = 0 /\ Rows(t) > 1
  THEN [pr |-> 0, pc |-> 0, panic |-> TRUE]
  ELSE [pr |-> IF Rows(t) > 1 THEN pivotRowScan(t, pc, 1, 0, MaxFloat64) ELSE 0,
        pc |-> pc, panic |-> FALSE]

\* isUnbounded: pr < 0 (after pivotIdxs has returned).
isUnbounded(t) == pivotIdxs(t).pr = 0

\* scalePivotRow: the pivot row times the rounded reciprocal 1/pe.
scalePivotRow(t, pr, pc) ==
  LET pe == t[pr][pc] IN
  [t EXCEPT ![pr] = scaleSlice(t[pr], RDiv[One, pe])]

\* A variant of elimRows that stops before the objective row.
elimRowsConstraintsOnly(t, pr, pc) ==
  LET pivrow == t[pr] IN
  [i \in 1..Rows(t) |->
     IF i = pr \/ i = Rows(t) THEN t[i]
     ELSE addSlices(t[i], scaleSlice(pivrow, RNeg(t[i][pc])))]

\* elimRows: every row but pr gets the (already scaled) pivot row, scaled
\* by minus the row's entry in the pivot column, added to it.
elimRows(t, pr, pc) ==
  LET pivrow == t[pr] IN
  [i \in 1..Rows(t) |->
     IF i = pr THEN t[i]
     ELSE addSlices(t[i], scaleSlice(pivrow, RNeg(t[i][pc])))]

pivotAt(t, pr, pc) == elimRows(scalePivotRow(t, pr, pc), pr, pc)

\* The extraction loop of ReadSoln: for each structural column j the
\* right-hand side of the first constraint row holding exactly 1 there,
\* and 0 when no row does.
RECURSIVE firstOneRow(_, _, _)
firstOneRow(t, j, i) ==
  IF i > Rows(t) - 1 THEN 0
  ELSE IF REq(t[i][j], One) THEN i ELSE firstOneRow(t, j, i + 1)

readVals(t) ==
  LET nvs == Cols(t) - Rows(t) IN
  [j \in 1..nvs |->
     LET i == firstOneRow(t, j, 1) IN
     IF i = 0 THEN Zero ELSE t[i][Cols(t)]]

\* ReadSoln: what the call returns, or that it panics.
ReadSoln(t) ==
  IF ~isSolved(t)
  THEN [vals |-> <<>>, val |-> Zero, err |-> "ERR_UNSOLVED"]
  ELSE IF pivotIdxs(t).panic
  THEN [vals |-> <<>>, val |-> Zero, err |-> "panic"]
  ELSE IF isUnbounded(t)
  THEN [vals |-> <<>>, val |-> Zero, err |-> "ERR_UNBOUNDED"]
  ELSE [vals |-> readVals(t), val |-> t[Rows(t)][Cols(t)], err |-> "nil"]

\* ------------------------------------------------------ slices and append
\* The heap is the sequence of the caller's backing arrays.  A slice s is
\* the elements s.off + 1 .. s.off + s.len of array s.arr, and may grow in
\* place up to s.cap elements.
SliceVals(h, s) == [j \in 1..s.len |-> h[s.arr][s.off + j]]

\* The heap after append(s, vs...): the elements are written behind the
\* slice when its capacity holds them; otherwise append copies to a new
\* array and the caller's arrays stay as they are.
AppendHeap(h, s, vs) ==
  IF s.len + Len(vs) <= s.cap
  THEN [h EXCEPT ![s.arr] =
          [k \in 1..Len(@) |->
             IF k > s.off + s.len /\ k <= s.off + s.len + Len(vs)
             THEN vs[k - s.off - s.len] ELSE @[k]]]
  ELSE h

\* The loop of NewTableau from constraint i on: h is the heap so far and
\* vecs the rows so far.  The lengths are compared constraint by
\* constraint, after the appends of the constraints before.
RECURSIVE newTableauRows(_, _, _, _, _)
newTableauRows(h, cs, o, i, vecs) ==
  IF i > Len(cs)
  THEN LET zeros == [k \in 1..(Len(cs) + 1) |-> Zero] IN
       [t |-> Append(vecs, SliceVals(h, o) \o zeros), err |-> "nil",
        heap |-> AppendHeap(h, o, zeros)]
  ELSE IF cs[i].Coefficients.len # o.len
  THEN [t |-> <<>>, err |-> "coefficient vectors must be of equal length",
        heap |-> h]
  ELSE LET slack == [k \in 1..Len(cs) |-> IF k = i THEN One ELSE Zero]
           tail == Append(slack, cs[i].RightHandSide)
       IN  newTableauRows(AppendHeap(h, cs[i].Coefficients, tail), cs, o, i + 1,
                          Append(vecs, SliceVals(h, cs[i].Coefficients) \o tail))

\* NewTableau: the tableau of constraints cs and objective o, or the error,
\* and the heap the call leaves.
NewTableau(h, cs, o) == newTableauRows(h, cs, o, 1, <<>>)

\* ------------------------------------------------------------ the inputs
NonZero(v) == IF v = 0 THEN 0 ELSE 1

RECURSIVE CountNonZero(_)
CountNonZero(f) == IF f = <<>> THEN 0 ELSE NonZero(Head(f)) + CountNonZero(Tail(f))

RECURSIVE Flatten(_)
Flatten(vs) == IF vs = <<>> THEN <<>> ELSE Head(vs) \o Flatten(Tail(vs))

\* An LP as its numbers: the coefficient vectors, the right-hand sides and
\* the objective.
LPData(A, b, c) == [A |-> A, b |-> b, c |-> c]
Weight(f) == Len(f) + CountNonZero(f)
LPSize(d) == Weight(Flatten(d.A)) + Weight(d.b) + Weight(d.c)

\* The LPs of m constraints and n variables within the bounds: the
\* coefficients are chosen first, then the right-hand sides, then the
\* objective, each within what MaxSize leaves.
LPsOfShape(m, n) ==
  UNION {UNION {{LPData(A, b, c) :
                   c \in {z \in [1..n -> ObjVals] : LPSize(LPData(A, b, z)) <= MaxSize}} :
                b \in {y \in [1..m -> RhsVals] :
                         Weight(Flatten(A)) + Weight(y) + n <= MaxSize}} :
         A \in {x \in [1..m -> [1..n -> CoefVals]] :
                  Weight(Flatten(x)) + m + n <= MaxSize}}

\* The LPs within the bounds whose coefficient vectors all have the
\* objective's length.
WellFormed == UNION {LPsOfShape(mn[1], mn[2]) : mn \in (0..MaxM) \X (1..MaxN)}

\* LPs with a constraint of another length than the objective's.
IllFormed ==
  UNION {{LPData([i \in 1..mn[1] |-> [j \in 1..lens[i] |-> 5]],
                 [i \in 1..mn[1] |-> 1], [j \in 1..mn[2] |-> -1]) :
            lens \in {l \in [1..mn[1] -> 1..MaxN] : \E i \in 1..mn[1] : l[i] # mn[2]}} :
         mn \in (1..MaxM) \X (1..MaxN)}

\* How the caller holds the vectors (the coefficient vectors, then the
\* objective): each in an array of its own or one behind the other in one
\* array, the arrays with spare elements behind the last vector or without.
Spare == MaxM + 1
Layouts == [shared : BOOLEAN, spare : {0, Spare}]
SpareVal == FromInt(7)

Vectors(d) == Append(d.A, d.c)
Floats(f) == [j \in 1..Len(f) |-> FromInt(f[j])]
Offset(vs, i) == Len(Flatten(SubSeq(vs, 1, i - 1)))

HeapOf(d, lay) ==
  LET vs == Vectors(d)
      pad == [k \in 1..lay.spare |-> SpareVal]
  IN  IF lay.shared THEN <<Floats(Flatten(vs)) \o pad>>
      ELSE [i \in 1..Len(vs) |-> Floats(vs[i]) \o pad]

SliceOf(d, lay, i) ==
  LET vs == Vectors(d) IN
  IF lay.shared
  THEN [arr |-> 1, off |-> Offset(vs, i), len |-> Len(vs[i]),
        cap |-> Len(Flatten(vs)) + lay.spare - Offset(vs, i)]
  ELSE [arr |-> i, off |-> 0, len |-> Len(vs[i]), cap |-> Len(vs[i]) + lay.spare]

ConstraintsOf(d, lay) ==
  [i \in 1..Len(d.A) |->
     [Coefficients |-> SliceOf(d, lay, i), RightHandSide |-> FromInt(d.b[i])]]
ObjectiveOf(d, lay) == SliceOf(d, lay, Len(d.A) + 1)

\* ---------------------------------------------------------------- state
VARIABLES
  heap,   \* the caller's backing arrays
  cs,     \* the caller's constraints, given to NewTableau: each a slice of
          \* coefficients and a right-hand side
  o,      \* the caller's objective, given to NewTableau: a slice
  tab,    \* the tableau's matrix (<<>>: no tableau)
  tab0,   \* the tableau's matrix as it was made (<<>>: no tableau)
  pc,     \* "init", "failed" (NewTableau's error), "ready" (a tableau, no
          \* call running), "solve" (at the head of Solve's loop), "panic"
  err,    \* what the last Solve returned: "none", "nil", "ERR_UNBOUNDED", "panic"
  soln,   \* what ReadSoln returned on the current tableau (<<>>: not called)
  npiv    \* pivots (scaleAndElim calls) performed on the tableau so far

vars == <<heap, cs, o, tab, tab0, pc, err, soln, npiv>>

\* The caller holds an LP, well-formed or ill-formed; no tableau yet.
Init ==
  /\ \E d \in WellFormed \cup IllFormed, lay \in Layouts :
       /\ heap = HeapOf(d, lay)
       /\ cs = ConstraintsOf(d, lay)
       /\ o = ObjectiveOf(d, lay)
  /\ tab = <<>>
  /\ tab0 = <<>>
  /\ pc = "init"
  /\ err = "none"
  /\ soln = <<>>
  /\ npiv = 0

\* A call of NewTableau on the caller's LP.  The slices cs and o are the
\* caller's still; what they hold is in the heap.
NewTableauCall ==
  /\ pc = "init"
  /\ \E r \in {NewTableau(heap, cs, o)} :
       /\ tab' = r.t
       /\ tab0' = r.t
       /\ heap' = r.heap
       /\ pc' = IF r.err = "nil" THEN "ready" ELSE "failed"
  /\ UNCHANGED <<cs, o, err, soln, npiv>>

\* A call of Solve: control reaches the head of the loop.
SolveCall ==
  /\ pc = "ready"
  /\ pc' = "solve"
  /\ soln' = <<>>
  /\ UNCHANGED <<heap, cs, o, tab, tab0, err, npiv>>

\* scaleAndElim: the pivot position is computed once, the pivot row is
\* scaled, then the other rows are eliminated against the scaled row.
scaleAndElim ==
  \E p \in {pivotIdxs(tab)} :
    \E scaled \in {scalePivotRow(tab, p.pr, p.pc)} :
      tab' = elimRows(scaled, p.pr, p.pc)

\* A variant of Solve's loop whose detecting pass has already scaled the
\* objective row by the pivot column's entry when it returns ERR_UNBOUNDED.
SolveStepScalesOnDetect ==
  /\ pc = "solve"
  /\ IF isSolved(tab)
     THEN /\ pc' = "ready"
          /\ err' = "nil"
          /\ UNCHANGED <<tab, npiv>>
     ELSE IF pivotIdxs(tab).panic
     THEN /\ pc' = "panic"
          /\ err' = "panic"
          /\ UNCHANGED <<tab, npiv>>
     ELSE IF isUnbounded(tab)
     THEN /\ pc' = "ready"
          /\ err' = "ERR_UNBOUNDED"
          /\ tab' = scalePivotRow(tab, Rows(tab), pivotIdxs(tab).pc)
          /\ UNCHANGED npiv
     ELSE /\ npiv < MaxPivots
          /\ scaleAndElim
          /\ npiv' = npiv + 1
          /\ UNCHANGED <<pc, err>>
  /\ UNCHANGED <<heap, cs, o, tab0, soln>>

\* One pass of Solve's loop: return nil when solved, return ERR_UNBOUNDED
\* when no pivot row exists, else pivot and go round again.
SolveStep ==
  /\ pc = "solve"
  /\ IF isSolved(tab)
     THEN /\ pc' = "ready"
          /\ err' = "nil"
          /\ UNCHANGED <<tab, npiv>>
     ELSE IF pivotIdxs(tab).panic
     THEN /\ pc' = "panic"
          /\ err' = "panic"
          /\ UNCHANGED <<tab, npiv>>
     ELSE IF isUnbounded(tab)
     THEN /\ pc' = "ready"
          /\ err' = "ERR_UNBOUNDED"
          /\ UNCHANGED <<tab, npiv>>
     ELSE /\ npiv < MaxPivots
          /\ scaleAndElim
          /\ npiv' = npiv + 1
          /\ UNCHANGED <<pc, err>>
  /\ UNCHANGED <<heap, cs, o, tab0, soln>>

\* A call of ReadSoln.
ReadSolnCall ==
  /\ pc = "ready"
  /\ soln = <<>>
  /\ soln' = ReadSoln(tab)
  /\ pc' = IF soln'.err = "panic" THEN "panic" ELSE "ready"
  /\ UNCHANGED <<heap, cs, o, tab, tab0, err, npiv>>

Next == NewTableauCall \/ SolveCall \/ SolveStep \/ ReadSolnCall

Spec == Init /\ [][Next]_vars

\* Tableaux made directly from a matrix, as the package's tests make them
\* (Tableau{mat.NewDense(r, c, data)}), with one structural variable: every
\* matrix over DirectVals with at most one constraint, and with two
\* constraints every matrix over DirectSigns whose slack block is the
\* identity.
DirectVals == {-1, 0, 1, 3}
DirectSigns == {-1, 1}
DirectTableaux ==
  UNION {[1..(m + 1) -> [1..(m + 2) -> {FromInt(v) : v \in DirectVals}]] :
         m \in {0, 1}}
    \cup {<<<<FromInt(a[1]), One, Zero, FromInt(b[1])>>,
            <<FromInt(a[2]), Zero, One, FromInt(b[2])>>,
            [j \in 1..4 |-> FromInt(z[j])]>> :
            a \in [1..2 -> DirectSigns], b \in [1..2 -> DirectSigns],
            z \in [1..4 -> DirectSigns]}

InitDirect ==
  /\ heap = <<>>
  /\ cs = <<>>
  /\ o = <<>>
  /\ tab \in DirectTableaux
  /\ tab0 = tab
  /\ pc = "ready"
  /\ err = "none"
  /\ soln = <<>>
  /\ npiv = 0

NextDirect == SolveCall \/ SolveStep \/ ReadSolnCall

SpecDirect == InitDirect /\ [][NextDirect]_vars

\* ------------------------------------------- the LP a tableau stands for
\* The tableau's number of constraints and of structural variables.
NumConstraints(t) == Rows(t) - 1
NumVars(t) == Cols(t) - Rows(t)

\* A tableau exists (NewTableau returned one).
Built == pc \in {"ready", "solve", "panic"}

RGe0(a) == ~RLt[a, Zero]
RLe(a, b) == ~RLt[b, a]

\* The numbers of the LP a tableau was made with (whole numbers, as the
\* inputs are).
LPOf(t) ==
  LPData([i \in 1..NumConstraints(t) |-> [j \in 1..NumVars(t) |-> IntOf(t[i][j])]],
         [i \in 1..NumConstraints(t) |-> IntOf(t[i][Cols(t)])],
         [j \in 1..NumVars(t) |-> IntOf(t[Rows(t)][j])])

\* Exact determinant of a square integer matrix (cofactor expansion).
RECURSIVE Det(_)
Det(A) ==
  LET k == Len(A)
      Minor(j) == [i \in 1..(k - 1) |->
                     [l \in 1..(k - 1) |-> A[i + 1][IF l < j THEN l ELSE l + 1]]]
      RECURSIVE Expand(_)
      Expand(j) == IF j = 0 THEN 0
                   ELSE (IF j % 2 = 1 THEN 1 ELSE -1) * A[1][j] * Det(Minor(j))
                        + Expand(j - 1)
  IN  IF k = 0 THEN 1 ELSE IF k = 1 THEN A[1][1] ELSE Expand(k)

\* The elements of a set of numbers in increasing order.
RECURSIVE Sorted(_)
Sorted(S) ==
  IF S = {} THEN <<>>
  ELSE LET x == CHOOSE y \in S : \A z \in S : y <= z
       IN  <<x>> \o Sorted(S \ {x})

\* For the system Mx * v = rhs, v >= 0 (Mx with k rows) and a set S of k
\* columns: the determinant of the basis and, by Cramer's rule, the
\* numerators of the basic variables.
BasisDet(Mx, S) ==
  LET cols == Sorted(S) IN
  Det([i \in 1..Len(Mx) |-> [l \in 1..Len(Mx) |-> Mx[i][cols[l]]]])
BasisNum(Mx, rhs, S, l) ==
  LET cols == Sorted(S) IN
  Det([i \in 1..Len(Mx) |->
         [h \in 1..Len(Mx) |-> IF h = l THEN rhs[i] ELSE Mx[i][cols[h]]]])
Bases(Mx, width) ==
  {S \in SUBSET (1..width) : Cardinality(S) = Len(Mx) /\ BasisDet(Mx, S) # 0}
IsFeasibleBasis(Mx, rhs, S) ==
  \A l \in 1..Len(Mx) : BasisNum(Mx, rhs, S, l) * BasisDet(Mx, S) >= 0

\* The LP d: maximise -c.v subject to A v <= b, v >= 0.  In standard form:
\* [A | I] (v, s) = b.
PrimalMatrix(d) ==
  [i \in 1..Len(d.A) |->
     [j \in 1..(Len(d.c) + Len(d.A)) |->
        IF j <= Len(d.c) THEN d.A[i][j]
        ELSE IF j - Len(d.c) = i THEN 1 ELSE 0]]
\* Its dual: A^T y >= -c, y >= 0.  In standard form: [A^T | -I] (y, u) = -c.
DualMatrix(d) ==
  [j \in 1..Len(d.c) |->
     [i \in 1..(Len(d.A) + Len(d.c)) |->
        IF i <= Len(d.A) THEN d.A[i][j]
        ELSE IF i - Len(d.A) = j THEN -1 ELSE 0]]
DualRhs(d) == [j \in 1..Len(d.c) |-> -d.c[j]]

\* The LP has a feasible point (then it has a basic feasible solution).
Feasible(d) ==
  \E S \in Bases(PrimalMatrix(d), Len(d.c) + Len(d.A)) :
    IsFeasibleBasis(PrimalMatrix(d), d.b, S)
\* The objective is bounded above on the feasible region: the LP is
\* infeasible or its dual is feasible.
BoundedAbove(d) ==
  \/ ~Feasible(d)
  \/ \E S \in Bases(DualMatrix(d), Len(d.A) + Len(d.c)) :
       IsFeasibleBasis(DualMatrix(d), DualRhs(d), S)
\* No basic feasible solution has a basic variable at 0.
NonDegenerate(d) ==
  \A S \in Bases(PrimalMatrix(d), Len(d.c) + Len(d.A)) :
    IsFeasibleBasis(PrimalMatrix(d), d.b, S)
      => \A l \in 1..Len(d.A) : BasisNum(PrimalMatrix(d), d.b, S, l) # 0
RhsNonNegative(x) == \A i \in 1..Len(x) : RGe0(x[i].RightHandSide)

\* Some reduced cost (objective-row entry of a variable column) is negative.
ImprovingColumn(t) == \E j \in 1..(Cols(t) - 1) : RLt[t[Rows(t)][j], Zero]
\* Column j is a unit column over the constraint rows, with its 1 in row r.
UnitAt(t, j, r) ==
  /\ REq(t[r][j], One)
  /\ \A i \in 1..NumConstraints(t) : i # r => REq(t[i][j], Zero)
IsUnitCol(t, j) == \E r \in 1..NumConstraints(t) : UnitAt(t, j, r)

\* Two matrices of the same shape hold equal numbers.
SameMatrix(t1, t2) ==
  /\ Len(t1) = Len(t2)
  /\ \A i \in 1..Len(t1) :
       /\ Len(t1[i]) = Len(t2[i])
       /\ \A j \in 1..Len(t1[i]) : REq(t1[i][j], t2[i][j])

\* ------------------------------------------------------------ the claims
\* The tableau NewTableau is said to build from what the caller's slices
\* hold in heap h: constraint row i is the coefficients, the unit slack
\* vector and the right-hand side; the last row is the negated objective
\* followed by zeros.
NegatedLayout(h, x, c) ==
  [i \in 1..(Len(x) + 1) |->
     [j \in 1..(c.len + Len(x) + 1) |->
        IF i <= Len(x)
        THEN (IF j <= c.len THEN SliceVals(h, x[i].Coefficients)[j]
              ELSE IF j <= c.len + Len(x)
                   THEN (IF j - c.len = i THEN One ELSE Zero)
                   ELSE x[i].RightHandSide)
        ELSE (IF j <= c.len THEN RNeg(SliceVals(h, c)[j]) ELSE Zero)]]

\* C1: on a tableau on which Solve has returned success (built from at
\* least one constraint), ReadSoln returns no error, one value per
\* structural variable, and the right-hand side of the objective row.
C1_ReadSolnSucceedsOnOptimal ==
  (Built /\ err = "nil" /\ Len(cs) >= 1 /\ soln # <<>>)
    => /\ soln.err = "nil"
       /\ Len(soln.vals) = o.len
       /\ soln.val = tab[Rows(tab)][Cols(tab)]

\* C2: ReadSoln's error matches the tableau's state: ERR_UNBOUNDED when an
\* improving column exists and no row can be the pivot row, ERR_UNSOLVED
\* when an improving column exists and a pivot row is available.
C2_ReadSolnErrorMatchesState ==
  (Built /\ soln # <<>> /\ ImprovingColumn(tab))
    => IF pivotIdxs(tab).pr = 0
       THEN soln.err = "ERR_UNBOUNDED"
       ELSE soln.err = "ERR_UNSOLVED"

\* C3: for constraint vectors of the objective's length NewTableau returns
\* m+1 rows and n+m+1 columns: [coefficients | unit slack | rhs] per
\* constraint, and the negated objective followed by m+1 zeros.
C3_NewTableauStep ==
  (pc = "init" /\ \A i \in 1..Len(cs) : cs[i].Coefficients.len = o.len)
    => /\ pc' = "ready"
       /\ Rows(tab') = Len(cs) + 1
       /\ \A i \in 1..Rows(tab') : Len(tab'[i]) = o.len + Len(cs) + 1
       /\ SameMatrix(tab', NegatedLayout(heap, cs, o))
C3_NewTableauNegatesObjective == [][C3_NewTableauStep]_vars

\* C4: on a tableau built from non-negative right-hand sides Solve pivots
\* only on a strictly positive entry of the pivot column, and returns
\* ERR_UNBOUNDED exactly when that column has no strictly positive entry in
\* a constraint row; so never for an LP whose objective is bounded above.
C4_PositiveDivisorStep ==
  (pc = "solve" /\ RhsNonNegative(cs) /\ ~isSolved(tab) /\ ~pivotIdxs(tab).panic)
    => LET p == pivotIdxs(tab) IN
       /\ npiv' = npiv + 1 => RLt[Zero, tab[p.pr][p.pc]]
       /\ (pc' = "ready" /\ err' = "ERR_UNBOUNDED")
            <=> (\A r \in 1..NumConstraints(tab) : ~RLt[Zero, tab[r][p.pc]])
       /\ (pc' = "ready" /\ err' = "ERR_UNBOUNDED") => ~BoundedAbove(LPOf(tab0))
C4_UnboundedOnlyWithoutPositiveDivisor == [][C4_PositiveDivisorStep]_vars

\* The assignment vals satisfies the constraints of the tableau t.
Satisfies(vals, t) ==
  \A i \in 1..NumConstraints(t) :
    LET RECURSIVE Dot(_)
        Dot(j) == IF j = 0 THEN Zero
                  ELSE RAdd[RMul[t[i][j], vals[j]], Dot(j - 1)]
    IN  RLe(Dot(Len(vals)), t[i][Cols(t)])
\* The value at vals of the objective the tableau t maximises (-c.v).
ObjectiveAt(vals, t) ==
  LET RECURSIVE Dot(_)
      Dot(j) == IF j = 0 THEN Zero
                ELSE RAdd[RMul[RNeg(t[Rows(t)][j]), vals[j]], Dot(j - 1)]
  IN  Dot(Len(vals))

\* C7: after Solve has returned success on a tableau built from non-negative
\* right-hand sides, extraction gives a basic (unit) structural column the
\* right-hand side of the row of its 1, and a non-basic one 0; the
\* assignment satisfies the constraints the tableau was built with and its
\* objective value is the one returned.
C7_ExtractionReadsBasicColumns ==
  (pc = "ready" /\ err = "nil" /\ RhsNonNegative(cs))
    => LET vals == readVals(tab) IN
       /\ \A j \in 1..NumVars(tab) :
            /\ \A r \in 1..NumConstraints(tab) :
                 UnitAt(tab, j, r) => vals[j] = tab[r][Cols(tab)]
            /\ ~IsUnitCol(tab, j) => REq(vals[j], Zero)
       /\ Satisfies(vals, tab0)
       /\ REq(ObjectiveAt(vals, tab0), tab[Rows(tab)][Cols(tab)])

\* C10: from right-hand sides that are all non-negative, every constraint
\* row's right-hand side is non-negative after every pivot.
C10_RhsStaysNonNegative ==
  (Built /\ RhsNonNegative(cs))
    => \A r \in 1..NumConstraints(tab) : RGe0(tab[r][Cols(tab)])

\* The caller holds an LP of which NewTableau makes the tableau of a
\* bounded, non-degenerate LP with non-negative right-hand sides.
InitBounded ==
  /\ Init
  /\ \E r \in {NewTableau(heap, cs, o)} :
       /\ r.err = "nil"
       /\ RhsNonNegative(cs)
       /\ NonDegenerate(LPOf(r.t))
       /\ BoundedAbove(LPOf(r.t))

\* Solve runs to its return once called: the loop is sequential code.
FairSpec == InitBounded /\ [][Next]_vars /\ WF_vars(SolveStep)

\* C5: on a tableau built from a bounded, non-degenerate LP with
\* non-negative right-hand sides (the LPs of FairSpec), Solve never returns
\* ERR_UNBOUNDED, never panics, and once called reaches, after finitely
\* many pivots, its return of nil with isSolved true.
C5_SolveTerminatesOptimal ==
  /\ [](err \in {"none", "nil"})
  /\ [](pc = "ready" /\ err = "nil" => isSolved(tab))
  /\ (pc = "solve") ~> (pc = "ready" /\ err = "nil" /\ isSolved(tab))

\* Every operation of the pivot step on (r, c) gives its exact result: the
\* reciprocal of the pivot element, the products that scale the pivot row,
\* and the products and sums that eliminate the other rows.
ExactPivot(t, r, c) ==
  /\ ExactDiv(One, t[r][c])
  /\ \A s \in {RDiv[One, t[r][c]]} :
       /\ \A j \in 1..Cols(t) : ExactMul(t[r][j], s)
       /\ \A row \in {scaleSlice(t[r], s)} :
            \A i \in 1..Rows(t) :
              i # r =>
                \A j \in 1..Cols(t) :
                  /\ ExactMul(row[j], RNeg(t[i][c]))
                  /\ ExactAdd(t[i][j], RMul[row[j], RNeg(t[i][c])])

\* t2 is t after one pivot step on (r, c).
RSub(a, b) == RAdd[a, RNeg(b)]
PivotPost(t, t2, r, c) ==
  /\ Rows(t2) = Rows(t)
  /\ \A i \in 1..Rows(t) : Len(t2[i]) = Cols(t)
  /\ REq(t2[r][c], One)
  /\ \A j \in 1..Cols(t) : REq(t2[r][j], RDiv[t[r][j], t[r][c]])
  /\ \A i \in 1..Rows(t) :
       i # r =>
         /\ REq(t2[i][c], Zero)
         /\ \A j \in 1..Cols(t) :
              REq(t2[i][j], RSub(t[i][j], RMul[t[i][c], t2[r][j]]))

\* C6: under exact arithmetic (every operation of the step exact) a pivot
\* step on (r, c) with a non-zero pivot element leaves 1 at (r, c) and 0 at
\* (i, c) for every other row i, the objective row included; row i becomes
\* row_i - entry(i, c) * (scaled pivot row); the dimensions do not change.
\* Both for the steps Solve takes and for every position of every tableau
\* at the head of its loop.
C6_PivotStep ==
  pc = "solve" =>
    /\ \A r \in 1..Rows(tab), c \in 1..Cols(tab) :
         (~REq(tab[r][c], Zero) /\ ExactPivot(tab, r, c))
           => \A t2 \in {pivotAt(tab, r, c)} : PivotPost(tab, t2, r, c)
    /\ (npiv' = npiv + 1 /\ ExactPivot(tab, pivotIdxs(tab).pr, pivotIdxs(tab).pc))
         => PivotPost(tab, tab', pivotIdxs(tab).pr, pivotIdxs(tab).pc)
C6_PivotMakesUnitColumn == [][C6_PivotStep]_vars
\* Solve has made one pivot, with exact arithmetic, on a tableau of two
\* constraints whose other rows all held a non-zero entry in the pivot
\* column.
C6_Witness ==
  /\ Built
  /\ npiv = 1
  /\ Rows(tab0) = 3
  /\ ~pivotIdxs(tab0).panic
  /\ pivotIdxs(tab0).pr # 0
  /\ \A i \in 1..Rows(tab0) : ~REq(tab0[i][pivotIdxs(tab0).pc], Zero)
  /\ ExactPivot(tab0, pivotIdxs(tab0).pr, pivotIdxs(tab0).pc)
  /\ tab = pivotAt(tab0, pivotIdxs(tab0).pr, pivotIdxs(tab0).pc)

\* C9: a return of Solve changes no entry (the pass that detects
\* unboundedness leaves the tableau as the last pivot left it), and Solve
\* called on a tableau on which it has returned makes no pivot, changes no
\* entry and returns the same result.
C9_ReturnStep ==
  /\ (pc = "solve" /\ pc' = "ready") => tab' = tab
  /\ (pc = "solve" /\ err \in {"nil", "ERR_UNBOUNDED"})
       => /\ pc' = "ready"
          /\ tab' = tab
          /\ npiv' = npiv
          /\ err' = err
C9_TerminalStatesStay == [][C9_ReturnStep]_vars
\* Solve is called again after it returned ERR_UNBOUNDED following a pivot.
C9_Witness == pc = "solve" /\ err = "ERR_UNBOUNDED" /\ npiv >= 1

\* C8: isSolved is true exactly when no variable column of the objective
\* row is negative (the right-hand side is not looked at), so on a tableau
\* whose objective row is negative only in its right-hand side Solve
\* returns success without a pivot.
C8_IsSolvedIgnoresRhs ==
  (err # "none")
    => /\ isSolved(tab) <=> ~ImprovingColumn(tab)
       /\ (npiv = 0 /\ ~ImprovingColumn(tab)) => err = "nil"

=============================================================================
